---- MODULE Spec2Model ----
(***************************************************************************)
(* Affine nonce-relation signature algebra of ecdsa-affine:                *)
(*   - eddsa_affine/attacker.py      the recovery engine (attack)          *)
(*   - scripts/flawed_eddsa_signer.py the EdDSA-style forward signer       *)
(*   - scripts/flawed_signer.py      the ECDSA-style forward signer        *)
(*                                                                         *)
(* The arithmetic is the source's arithmetic over scaled-down parameters:  *)
(* the Ed25519 scalar order 2^252+... becomes the prime 5, a byte holds    *)
(* 0..3 instead of 0..255 and the 32-byte fields are 2 bytes wide, so a    *)
(* key or an R value ranges over 0..15 and still exceeds the order, as     *)
(* 2^256 exceeds the real one.  secp256k1 becomes y^2 = x^3 + 7 over F_13, *)
(* a curve of prime order 7 < 13 which, like secp256k1, has no point with  *)
(* x = 0 but has points with x = n.                                        *)
(***************************************************************************)
EXTENDS Integers, Sequences, FiniteSets

(* ---- bounds of the model ---- *)
\* longest message list handed to a signing method
MaxMsgs == 2
\* how far start nonces, steps and attack's coefficients range outside [0, n)
Slack == 1
\* largest salt of the hash stand-in
MaxIV == 2
\* largest private key, read as a little-endian integer, a signer is built with
MaxKey == 5

(* ---- program constants (scaled) ---- *)
\* Ed25519 curve order (attacker.py:13, flawed_eddsa_signer.py:25)
CURVE_ORDER == 5
\* values of one byte: 256 in the source
ByteBase == 4
\* width of R, of the private key and of the public key: 32 in the source
FieldLen == 2
\* width of a digest: 64 (SHA-512) resp. 32 (SHA-256) in the source
DigestLen == 2

RECURSIVE Pow(_, _)
Pow(b, e) == IF e = 0 THEN 1 ELSE b * Pow(b, e - 1)

(* ---- int.to_bytes / int.from_bytes / hex ---- *)
\* x.to_bytes(len, 'little') is defined for 0 <= x < 256^len (else OverflowError)
FitsBytes(x, len) == x >= 0 /\ x < Pow(ByteBase, len)

RECURSIVE ToBytesLE(_, _)
ToBytesLE(x, len) ==
    IF len = 0 THEN <<>> ELSE <<x % ByteBase>> \o ToBytesLE(x \div ByteBase, len - 1)

RECURSIVE FromBytesLE(_)
FromBytesLE(bytes) ==
    IF bytes = <<>> THEN 0 ELSE Head(bytes) + ByteBase * FromBytesLE(Tail(bytes))

RECURSIVE ToBytesBE(_, _)
ToBytesBE(x, len) ==
    IF len = 0 THEN <<>> ELSE ToBytesBE(x \div ByteBase, len - 1) \o <<x % ByteBase>>

RECURSIVE FromBytesBE(_)
FromBytesBE(bytes) ==
    IF bytes = <<>> THEN 0
    ELSE FromBytesBE(SubSeq(bytes, 1, Len(bytes) - 1)) * ByteBase + bytes[Len(bytes)]

\* hex(x) of a non-negative integer: the prefix and the base-16 digits, most
\* significant first
RECURSIVE HexDigits(_)
HexDigits(x) == IF x < 16 THEN <<x>> ELSE HexDigits(x \div 16) \o <<x % 16>>

HexOfInt(x) == [prefix |-> "0x", digits |-> HexDigits(x)]

\* bytes.hex(): two base-16 digits per byte, no prefix
RECURSIVE HexPairs(_)
HexPairs(bytes) ==
    IF bytes = <<>> THEN <<>>
    ELSE <<Head(bytes) \div 16, Head(bytes) % 16>> \o HexPairs(Tail(bytes))

HexOfBytes(bytes) == [prefix |-> "", digits |-> HexPairs(bytes)]

\* int(text, 16)
RECURSIVE DigitsValue(_)
DigitsValue(digits) ==
    IF digits = <<>> THEN 0
    ELSE DigitsValue(SubSeq(digits, 1, Len(digits) - 1)) * 16 + digits[Len(digits)]

IntOfHex(text) == DigitsValue(text.digits)

\* bytes.fromhex(text)
RECURSIVE BytesOfPairs(_)
BytesOfPairs(digits) ==
    IF Len(digits) < 2 THEN <<>>
    ELSE <<digits[1] * 16 + digits[2]>> \o BytesOfPairs(SubSeq(digits, 3, Len(digits)))

BytesOfHex(text) == BytesOfPairs(text.digits)

(* ---- state ---- *)
VARIABLES
    salt,         \* which function the hash library computes (fixed per behaviour)
    scheme,       \* "eddsa", "ecdsa" or "attack": what this behaviour exercises
    private_key,  \* self.private_key: 32 bytes (EdDSA) or an integer (ECDSA)
    public_key,   \* self.public_key
    pc,           \* "idle", then the last operation that ran
    call,         \* the arguments of the last signing call
    outcome,      \* how the last signing call ended and the list it returned
    key_info,     \* the record get_key_info returned
    attack_args,  \* the arguments of the last call of attack
    result,       \* how the last call of attack ended
    fixtures      \* how far generate_fixtures got, what it saved and called

vars == <<salt, scheme, private_key, public_key, pc, call, outcome, key_info,
          attack_args, result, fixtures>>

(* ---- the hash library ---- *)
\* hashlib.sha512 / hashlib.sha256 are fixed functions the program cannot see
\* into; the model draws one from a salted family in Init and keeps it.
Salts == 0..MaxIV

RECURSIVE Mix(_, _, _)
Mix(acc, mul, data) ==
    IF data = <<>> THEN acc
    ELSE Mix((acc * mul + Head(data) + 1) % 17, mul, Tail(data))

DigestRange == Pow(ByteBase, DigestLen)

sha512(data) == ToBytesLE(Mix(salt, 2 + (salt % 2), data) % DigestRange, DigestLen)

sha256(data) == ToBytesLE(Mix(salt + 5, 2 + (salt % 2), data) % DigestRange, DigestLen)

\* the messages signed: ASCII bytes, so that message.decode('utf-8') is defined
Messages == {<<1>>, <<0, 1>>}

RECURSIVE SeqsUpTo(_, _)
SeqsUpTo(S, k) ==
    IF k = 0 THEN {<<>>}
    ELSE LET shorter == SeqsUpTo(S, k - 1)
         IN shorter \cup {Append(q, x) : q \in {t \in shorter : Len(t) = k - 1}, x \in S}

MessageLists == SeqsUpTo(Messages, MaxMsgs)

(* ---- eddsa_affine/attacker.py ---- *)
\* pow(x, -1, q): the inverse of x modulo q, or ValueError when there is none
NoInverse == 0 - 1

\* a search for the inverse that stops one short of q - 1
ModInverseShort(x, q) ==
    IF \E y \in 1..(q - 2) : (x * y) % q = 1
    THEN CHOOSE y \in 1..(q - 2) : (x * y) % q = 1
    ELSE NoInverse

ModInverse(x, q) ==
    IF \E y \in 1..(q - 1) : (x * y) % q = 1
    THEN CHOOSE y \in 1..(q - 1) : (x * y) % q = 1
    ELSE NoInverse

\* compute_h(r, public_key, message) for an r that fits to_bytes(32, 'little')
compute_h(r, pk, message) ==
    LET r_bytes == ToBytesLE(r, FieldLen)
        data == r_bytes \o pk \o message
        h == sha512(data)
    IN FromBytesLE(h) % CURVE_ORDER

NoValue == 0 - 1

\* a comparison of the keys' lengths only
SamePublicKeyLength(public_key1, public_key2) == Len(public_key1) = Len(public_key2)

\* line 83: the two signatures carry the same public key
SamePublicKey(public_key1, public_key2) == public_key1 = public_key2

\* beta added instead of subtracted
AttackNumeratorPlusBeta(s1, s2, alpha, beta, q) == (s2 - alpha * s1 + beta) % q

\* beta taken by its magnitude
AttackNumeratorAbs(s1, s2, alpha, beta, q) ==
    (s2 - alpha * s1 - (IF beta < 0 THEN 0 - beta ELSE beta)) % q

\* line 94
AttackNumerator(s1, s2, alpha, beta, q) == (s2 - alpha * s1 - beta) % q

\* alpha left out of the denominator
AttackDenominatorNoAlpha(h1, h2, alpha, q) == (h2 - h1) % q

\* line 97
AttackDenominator(h1, h2, alpha, q) == (h2 - alpha * h1) % q

\* attack(sig1, sig2, alpha, beta), sig = (r, s, public_key, message).
\* kind: "ValueError" (raise, line 84), "OverflowError" (raised by to_bytes in
\* compute_h), "None" (return None) or "int" (return private_key); line: the
\* source line that ended the call; computed: the intermediate values the call
\* had computed by then.
attack(sig1, sig2, alpha, beta) ==
    LET r1 == sig1[1]
        s1 == sig1[2]
        public_key1 == sig1[3]
        message1 == sig1[4]
        r2 == sig2[1]
        s2 == sig2[2]
        public_key2 == sig2[3]
        message2 == sig2[4]
        q == CURVE_ORDER
    IN IF ~SamePublicKey(public_key1, public_key2)
       THEN [kind |-> "ValueError", line |-> 84, value |-> NoValue, computed |-> {}]
       ELSE IF ~FitsBytes(r1, FieldLen)
       THEN [kind |-> "OverflowError", line |-> 29, value |-> NoValue, computed |-> {}]
       ELSE IF ~FitsBytes(r2, FieldLen)
       THEN [kind |-> "OverflowError", line |-> 29, value |-> NoValue,
             computed |-> {"h1"}]
       ELSE
         LET h1 == compute_h(r1, public_key1, message1)
             h2 == compute_h(r2, public_key1, message2)
             numerator == AttackNumerator(s1, s2, alpha, beta, q)
             denominator == AttackDenominator(h1, h2, alpha, q)
         IN IF denominator = 0
            THEN [kind |-> "None", line |-> 102, value |-> NoValue,
                  computed |-> {"h1", "h2", "numerator", "denominator"}]
            ELSE
              LET denominator_inv == ModInverse(denominator, q)
              IN IF denominator_inv = NoInverse
                 THEN [kind |-> "None", line |-> 109, value |-> NoValue,
                       computed |-> {"h1", "h2", "numerator", "denominator"}]
                 ELSE [kind |-> "int", line |-> 114,
                       value |-> (numerator * denominator_inv) % q,
                       computed |-> {"h1", "h2", "numerator", "denominator",
                                     "denominator_inv", "private_key"}]

(* ---- scripts/flawed_eddsa_signer.py ---- *)
\* FlawedEdDSASigner.__init__ accepts exactly the 32-byte keys
EdPrivateKeys ==
    {ToBytesLE(x, FieldLen) : x \in {k \in 0..MaxKey : FitsBytes(k, FieldLen)}}

\* SigningKey(private_key).verify_key.encode(): the library's public key of a
\* seed, a fixed injective encoding of FieldLen bytes
EdPublicKeyOf(seed) ==
    ToBytesLE((3 * FromBytesLE(seed) + 1) % Pow(ByteBase, FieldLen), FieldLen)

\* FlawedEdDSASigner.compute_h(r, public_key, message), r already 32 bytes
signer_compute_h(r_bytes, pk, message) ==
    LET data == r_bytes \o pk \o message
        h == sha512(data)
    IN FromBytesLE(h) % CURVE_ORDER

\* a = int.from_bytes(self.private_key[:32], 'little') % CURVE_ORDER
SigningScalar ==
    FromBytesLE(SubSeq(private_key, 1, FieldLen)) % CURVE_ORDER

EdRecord(message, r_int, s) ==
    [message |-> HexOfBytes(message),
     r |-> HexOfInt(r_int),
     s |-> HexOfInt(s),
     public_key |-> HexOfBytes(public_key)]

\* a nonce that moves on by one with every message
ed_sign_with_moving_nonce(messages, nonce) ==
    [k \in 1..Len(messages) |->
       LET message == messages[k]
           moved == nonce + k
           r_int == moved % CURVE_ORDER
           h == signer_compute_h(ToBytesLE(r_int, FieldLen), public_key, message)
       IN EdRecord(message, r_int, (moved + h * SigningScalar) % CURVE_ORDER)]

ed_sign_with_same_nonce(messages, nonce) ==
    LET r_int == nonce % CURVE_ORDER
        r_bytes == ToBytesLE(r_int, FieldLen)
    IN [k \in 1..Len(messages) |->
          LET message == messages[k]
              h == signer_compute_h(r_bytes, public_key, message)
              a == SigningScalar
              s == (nonce + h * a) % CURVE_ORDER
          IN EdRecord(message, r_int, s)]

\* the loop of sign_with_affine_nonces; i is enumerate's index
RECURSIVE EdAffineLoop(_, _, _, _, _, _)
EdAffineLoop(messages, a, b, i, current_nonce, signatures) ==
    IF i >= Len(messages) THEN signatures
    ELSE
      LET message == messages[i + 1]
          r_int == current_nonce % CURVE_ORDER
          r_bytes == ToBytesLE(r_int, FieldLen)
          h == signer_compute_h(r_bytes, public_key, message)
          a_priv == SigningScalar
          s == (current_nonce + h * a_priv) % CURVE_ORDER
          next_nonce == IF i < Len(messages) - 1
                        THEN (a * current_nonce + b) % CURVE_ORDER
                        ELSE current_nonce
      IN EdAffineLoop(messages, a, b, i + 1, next_nonce,
                      Append(signatures, EdRecord(message, r_int, s)))

\* the relation applied once: every nonce after the first is the second
ed_sign_with_affine_nonces_once(messages, a, b, start_nonce) ==
    IF messages = <<>> THEN <<>>
    ELSE EdAffineLoop(<<Head(messages)>>, a, b, 0, start_nonce, <<>>)
         \o ed_sign_with_same_nonce(Tail(messages),
                                    (a * start_nonce + b) % CURVE_ORDER)

ed_sign_with_affine_nonces(messages, a, b, start_nonce) ==
    EdAffineLoop(messages, a, b, 0, start_nonce, <<>>)

ed_sign_with_counter_nonce(messages, start_nonce) ==
    ed_sign_with_affine_nonces(messages, 1, 1, start_nonce)

\* the step ignored: every nonce one more than the last
ed_sign_with_unit_step(messages, step, start_nonce) ==
    EdAffineLoop(messages, 1, 1, 0, start_nonce, <<>>)

ed_sign_with_hardcoded_step(messages, step, start_nonce) ==
    [k \in 1..Len(messages) |->
       LET i == k - 1
           message == messages[k]
           nonce == (start_nonce + i * step) % CURVE_ORDER
           r_int == nonce % CURVE_ORDER
           r_bytes == ToBytesLE(r_int, FieldLen)
           h == signer_compute_h(r_bytes, public_key, message)
           a_priv == SigningScalar
           s == (nonce + h * a_priv) % CURVE_ORDER
       IN EdRecord(message, r_int, s)]

ed_get_key_info ==
    [private_key |-> FromBytesLE(SubSeq(private_key, 1, FieldLen)),
     public_key_hex |-> HexOfBytes(public_key),
     public_key |-> HexOfBytes(public_key)]

\* what a caller hands to attack for a record of the signer:
\* (int(r, 16), int(s, 16), bytes.fromhex(public_key), bytes.fromhex(message))
SigTuple(sig) ==
    <<IntOfHex(sig.r), IntOfHex(sig.s), BytesOfHex(sig.public_key),
      BytesOfHex(sig.message)>>

(* ---- the curve library (ecdsa.SECP256k1), scaled ---- *)
\* the field prime p and the coefficient of y^2 = x^3 + 7
FIELD_PRIME == 13
CURVE_B == 7
\* curve.order, equal to flawed_signer.CURVE_ORDER
SECP_ORDER == 7
\* curve.generator
GENERATOR == <<8, 5>>
\* the point at infinity; its x() is None
INFINITY == <<>>

PointAdd(P, Q) ==
    IF P = INFINITY THEN Q
    ELSE IF Q = INFINITY THEN P
    ELSE IF P[1] = Q[1] /\ (P[2] + Q[2]) % FIELD_PRIME = 0 THEN INFINITY
    ELSE
      LET lambda == IF P = Q
                    THEN (3 * P[1] * P[1] * ModInverse(2 * P[2], FIELD_PRIME))
                           % FIELD_PRIME
                    ELSE ((Q[2] - P[2]) * ModInverse(Q[1] - P[1], FIELD_PRIME))
                           % FIELD_PRIME
          x == (lambda * lambda - P[1] - Q[1]) % FIELD_PRIME
      IN <<x, (lambda * (P[1] - x) - P[2]) % FIELD_PRIME>>

\* k * P for an integer k: the library reduces k modulo the order
RECURSIVE PointMulReduced(_, _)
PointMulReduced(k, P) ==
    IF k = 0 THEN INFINITY ELSE PointAdd(P, PointMulReduced(k - 1, P))

PointMul(k, P) == PointMulReduced(k % SECP_ORDER, P)

(* ---- scripts/flawed_signer.py ---- *)
\* the step of sign_with_counter_nonce (line 181)
COUNTER_STEP == 123456

\* FlawedSigner.__init__: a secret exponent in [1, n)
EcPrivateKeys == 1..(SECP_ORDER - 1)

\* prefix + x.to_bytes(32, 'big')
EcPublicKeyOf(d) ==
    LET point == PointMul(d, GENERATOR)
        prefix == IF point[2] % 2 = 0 THEN <<2>> ELSE <<3>>
    IN prefix \o ToBytesBE(point[1], FieldLen)

\* FlawedSigner.hash_message
hash_message(message) ==
    LET h == sha256(message)
    IN FromBytesBE(h) % SECP_ORDER

\* message.decode('utf-8') of ASCII bytes: one code point per byte
Utf8Decode(message) == [k \in 1..Len(message) |-> [codepoint |-> message[k]]]

\* s with the private key left out
EcSignatureValueNoKey(nonce_inv, z, r, n) == (nonce_inv * (z + r)) % n

\* s = (pow(nonce, -1, n) * (z + r * self.private_key)) % n (lines 89, 137, 186)
EcSignatureValue(nonce_inv, z, r, n) == (nonce_inv * (z + r * private_key)) % n

\* one pass of a signing loop's body up to s: how it ends, and r and s.
\* (nonce * G).x() % n raises TypeError on the point at infinity;
\* pow(nonce, -1, n) raises ValueError on a nonce with no inverse.
EcSignOne(message, nonce) ==
    LET n == SECP_ORDER
        z == hash_message(message)
        point == PointMul(nonce, GENERATOR)
    IN IF point = INFINITY
       THEN [kind |-> "TypeError", z |-> z, r |-> NoValue, s |-> NoValue]
       ELSE
         LET r == point[1] % n
             nonce_inv == ModInverse(nonce, n)
         IN IF nonce_inv = NoInverse
            THEN [kind |-> "ValueError", z |-> z, r |-> r, s |-> NoValue]
            ELSE [kind |-> "return", z |-> z, r |-> r,
                  s |-> EcSignatureValue(nonce_inv, z, r, n)]

\* the loop of sign_with_same_nonce
RECURSIVE EcSameLoop(_, _, _, _)
EcSameLoop(messages, nonce, i, signatures) ==
    IF i >= Len(messages) THEN [kind |-> "return", signatures |-> signatures]
    ELSE
      LET message == messages[i + 1]
          one == EcSignOne(message, nonce)
      IN IF one.kind # "return" THEN [kind |-> one.kind, signatures |-> <<>>]
         ELSE EcSameLoop(messages, nonce, i + 1,
                Append(signatures,
                       [message |-> Utf8Decode(message), z |-> one.z, r |-> one.r,
                        s |-> one.s]))

\* r is computed once, before the loop
ec_sign_with_same_nonce(messages, nonce) ==
    IF PointMul(nonce, GENERATOR) = INFINITY
    THEN [kind |-> "TypeError", signatures |-> <<>>]
    ELSE EcSameLoop(messages, nonce, 0, <<>>)

\* the loop of sign_with_affine_nonces
RECURSIVE EcAffineLoop(_, _, _, _, _, _)
EcAffineLoop(messages, a, b, i, current_nonce, signatures) ==
    IF i >= Len(messages) THEN [kind |-> "return", signatures |-> signatures]
    ELSE
      LET message == messages[i + 1]
          one == EcSignOne(message, current_nonce)
      IN IF one.kind # "return" THEN [kind |-> one.kind, signatures |-> <<>>]
         ELSE EcAffineLoop(messages, a, b, i + 1,
                (a * current_nonce + b) % SECP_ORDER,
                Append(signatures,
                       [message |-> Utf8Decode(message), z |-> one.z, r |-> one.r,
                        s |-> one.s, nonce_index |-> i,
                        nonce_relation |-> IF i > 0 THEN <<i + 1, a, i, b>>
                                           ELSE <<>>]))

ec_sign_with_affine_nonces(messages, base_nonce, a, b) ==
    EcAffineLoop(messages, a, b, 0, base_nonce, <<>>)

\* the loop of sign_with_counter_nonce
RECURSIVE EcCounterLoop(_, _, _, _)
EcCounterLoop(messages, start_nonce, i, signatures) ==
    IF i >= Len(messages) THEN [kind |-> "return", signatures |-> signatures]
    ELSE
      LET message == messages[i + 1]
          nonce == (start_nonce + i * COUNTER_STEP) % SECP_ORDER
          one == EcSignOne(message, nonce)
      IN IF one.kind # "return" THEN [kind |-> one.kind, signatures |-> <<>>]
         ELSE EcCounterLoop(messages, start_nonce, i + 1,
                Append(signatures,
                       [message |-> Utf8Decode(message), z |-> one.z, r |-> one.r,
                        s |-> one.s, nonce_index |-> i]))

ec_sign_with_counter_nonce(messages, start_nonce) ==
    EcCounterLoop(messages, start_nonce, 0, <<>>)

(* ---- the inputs the model draws ---- *)
\* start nonces, reduced or not; the coefficients a and b of a signing call;
\* the steps of sign_with_hardcoded_step and the coefficients handed to attack,
\* reduced or not
StartNonces == 0..(CURVE_ORDER - 1 + Slack)
Relations == 0..(CURVE_ORDER - 1)
Coefficients == (0 - Slack)..(CURVE_ORDER - 1 + Slack)

NoCall == [method |-> "none", messages |-> <<>>, nonce |-> 0, a |-> 0, b |-> 0]
NoOutcome == [kind |-> "none", signatures |-> <<>>]
NoKeyInfo == [private_key |-> NoValue]
NoAttackArgs == [sig1 |-> <<>>, sig2 |-> <<>>, alpha |-> 0, beta |-> 0, i |-> 0, j |-> 0]
NoResult == [kind |-> "none", line |-> 0, value |-> NoValue, computed |-> {}]
NoFixtures == [at |-> 0, saved |-> <<>>, called |-> <<>>, ended |-> "none"]

Idle ==
    /\ pc = "idle"
    /\ call = NoCall
    /\ outcome = NoOutcome
    /\ key_info = NoKeyInfo
    /\ attack_args = NoAttackArgs
    /\ result = NoResult
    /\ fixtures = NoFixtures

(* ---- the EdDSA-style signer and the attack on what it returns ---- *)
\* FlawedEdDSASigner(private_key)
EdInit ==
    /\ salt \in Salts
    /\ scheme = "eddsa"
    /\ private_key \in EdPrivateKeys
    /\ public_key = EdPublicKeyOf(private_key)
    /\ Idle

\* a signing call ended: with the list it returned, or with the exception raised
Finished(method, messages, nonce, a, b, how) ==
    /\ pc' = "signed"
    /\ call' = [method |-> method, messages |-> messages, nonce |-> nonce,
                a |-> a, b |-> b]
    /\ outcome' = how
    /\ UNCHANGED <<fixtures, salt, scheme, private_key, public_key, key_info, attack_args, result>>

EdSignSameNonce ==
    /\ scheme = "eddsa"
    /\ pc = "idle"
    /\ \E messages \in MessageLists, nonce \in StartNonces :
         Finished("sign_with_same_nonce", messages, nonce, 1, 0,
                  [kind |-> "return",
                   signatures |-> ed_sign_with_same_nonce(messages, nonce)])

EdSignAffineNonces ==
    /\ scheme = "eddsa"
    /\ pc = "idle"
    /\ \E messages \in MessageLists, a \in Relations, b \in Relations,
          start_nonce \in StartNonces :
         Finished("sign_with_affine_nonces", messages, start_nonce, a, b,
                  [kind |-> "return",
                   signatures |-> ed_sign_with_affine_nonces(messages, a, b, start_nonce)])

EdSignCounterNonce ==
    /\ scheme = "eddsa"
    /\ pc = "idle"
    /\ \E messages \in MessageLists, start_nonce \in StartNonces :
         Finished("sign_with_counter_nonce", messages, start_nonce, 1, 1,
                  [kind |-> "return",
                   signatures |-> ed_sign_with_counter_nonce(messages, start_nonce)])

EdSignHardcodedStep ==
    /\ scheme = "eddsa"
    /\ pc = "idle"
    /\ \E messages \in MessageLists, step \in Coefficients, start_nonce \in StartNonces :
         Finished("sign_with_hardcoded_step", messages, start_nonce, 1, step,
                  [kind |-> "return",
                   signatures |-> ed_sign_with_hardcoded_step(messages, step, start_nonce)])

EdGetKeyInfo ==
    /\ scheme = "eddsa"
    /\ pc = "idle"
    /\ pc' = "key_info"
    /\ key_info' = ed_get_key_info
    /\ UNCHANGED <<fixtures, salt, scheme, private_key, public_key, call, outcome,
                   attack_args, result>>

\* attack(sigs[i], sigs[j], alpha, beta) on two records of the list just
\* returned, with the relation the signing call was given
AttackSigned ==
    /\ scheme = "eddsa"
    /\ pc = "signed"
    /\ \E i \in 1..Len(outcome.signatures), j \in 1..Len(outcome.signatures) :
         /\ i # j
         /\ LET sig1 == SigTuple(outcome.signatures[i])
                sig2 == SigTuple(outcome.signatures[j])
            IN /\ attack_args' = [sig1 |-> sig1, sig2 |-> sig2, alpha |-> call.a,
                                  beta |-> call.b, i |-> i, j |-> j]
               /\ result' = attack(sig1, sig2, call.a, call.b)
    /\ pc' = "attacked"
    /\ UNCHANGED <<fixtures, salt, scheme, private_key, public_key, call, outcome, key_info>>

\* lists one longer than MaxMsgs, of alternating distinct messages
ChainLists ==
    {[k \in 1..(MaxMsgs + 1) |-> IF k % 2 = 1 THEN m1 ELSE m2] :
       m1 \in Messages, m2 \in Messages} \ {[k \in 1..(MaxMsgs + 1) |-> m] : m \in Messages}

\* sign_with_affine_nonces on a longer list
EdSignAffineChain ==
    /\ scheme = "eddsa"
    /\ pc = "idle"
    /\ \E messages \in ChainLists, a \in Relations, b \in Relations,
          start_nonce \in StartNonces :
         /\ call' = [method |-> "sign_with_affine_nonces", messages |-> messages,
                     nonce |-> start_nonce, a |-> a, b |-> b]
         /\ outcome' = [kind |-> "return",
                        signatures |-> ed_sign_with_affine_nonces(messages, a, b,
                                                                  start_nonce)]
    /\ pc' = "chained"
    /\ UNCHANGED <<fixtures, salt, scheme, private_key, public_key, key_info,
                   attack_args, result>>

\* d passes of the loop's nonce = (a * nonce + b) take a nonce k to
\* alpha * k + beta: the pair <<alpha, beta>>
RECURSIVE ComposedRelation(_, _, _)
ComposedRelation(a, b, d) ==
    IF d = 0 THEN <<1, 0>>
    ELSE LET before == ComposedRelation(a, b, d - 1)
         IN <<a * before[1], a * before[2] + b>>

\* attack(sigs[i], sigs[j], alpha, beta) on two records of the longer list,
\* i before j, with the relation of the j - i loop passes between them
AttackComposed ==
    /\ scheme = "eddsa"
    /\ pc = "chained"
    /\ \E i \in 1..Len(outcome.signatures), j \in 1..Len(outcome.signatures) :
         /\ i < j
         /\ LET sig1 == SigTuple(outcome.signatures[i])
                sig2 == SigTuple(outcome.signatures[j])
                relation == ComposedRelation(call.a, call.b, j - i)
            IN /\ attack_args' = [sig1 |-> sig1, sig2 |-> sig2, alpha |-> relation[1],
                                  beta |-> relation[2], i |-> i, j |-> j]
               /\ result' = attack(sig1, sig2, relation[1], relation[2])
    /\ pc' = "composed"
    /\ UNCHANGED <<fixtures, salt, scheme, private_key, public_key, call, outcome, key_info>>

(* ---- the ECDSA-style signer ---- *)
EcStartNonces == 0..(SECP_ORDER - 1 + Slack)
EcCoefficients == 0..(SECP_ORDER - 1)

\* FlawedSigner(private_key)
EcInit ==
    /\ salt \in Salts
    /\ scheme = "ecdsa"
    /\ private_key \in EcPrivateKeys
    /\ public_key = EcPublicKeyOf(private_key)
    /\ Idle

EcSignSameNonce ==
    /\ scheme = "ecdsa"
    /\ pc = "idle"
    /\ \E messages \in MessageLists, nonce \in EcStartNonces :
         Finished("sign_with_same_nonce", messages, nonce, 1, 0,
                  ec_sign_with_same_nonce(messages, nonce))

EcSignAffineNonces ==
    /\ scheme = "ecdsa"
    /\ pc = "idle"
    /\ \E messages \in MessageLists, base_nonce \in EcStartNonces,
          a \in EcCoefficients, b \in EcCoefficients :
         Finished("sign_with_affine_nonces", messages, base_nonce, a, b,
                  ec_sign_with_affine_nonces(messages, base_nonce, a, b))

EcSignCounterNonce ==
    /\ scheme = "ecdsa"
    /\ pc = "idle"
    /\ \E messages \in MessageLists, start_nonce \in EcStartNonces :
         Finished("sign_with_counter_nonce", messages, start_nonce, 1, 1,
                  ec_sign_with_counter_nonce(messages, start_nonce))

(* ---- attack on signatures observed elsewhere ---- *)
\* R values: some that fit 32 bytes and one that does not
AttackRs == {0, 1, Pow(ByteBase, FieldLen)}
AttackSs == {0, CURVE_ORDER - 1}
AttackKeys == {EdPublicKeyOf(ToBytesLE(0, FieldLen)), EdPublicKeyOf(ToBytesLE(1, FieldLen))}

AttackInit ==
    /\ salt \in Salts
    /\ scheme = "attack"
    /\ private_key = <<>>
    /\ public_key = EdPublicKeyOf(ToBytesLE(0, FieldLen))
    /\ Idle

AttackAny ==
    /\ scheme = "attack"
    /\ pc = "idle"
    /\ \E r1 \in AttackRs, s1 \in AttackSs, message1 \in Messages,
          r2 \in AttackRs, s2 \in AttackSs, public_key2 \in AttackKeys,
          message2 \in Messages, alpha \in Coefficients, beta \in Coefficients :
         LET sig1 == <<r1, s1, public_key, message1>>
             sig2 == <<r2, s2, public_key2, message2>>
         IN /\ attack_args' = [sig1 |-> sig1, sig2 |-> sig2, alpha |-> alpha,
                               beta |-> beta, i |-> 0, j |-> 0]
            /\ result' = attack(sig1, sig2, alpha, beta)
    /\ pc' = "attacked"
    /\ UNCHANGED <<fixtures, salt, scheme, private_key, public_key, call, outcome, key_info>>

(* ---- scripts/generate_fixtures.py ---- *)
\* the methods class FlawedSigner defines
FlawedSignerMethods ==
    {"hash_message", "sign_with_same_nonce", "sign_with_affine_nonces",
     "sign_with_counter_nonce", "save_signatures", "get_key_info"}

\* FlawedSigner.get_key_info
ec_get_key_info ==
    [private_key |-> private_key,
     public_key_hex |-> HexOfBytes(public_key),
     public_key_compressed |-> HexOfBytes(public_key)]

\* the statements of generate_fixtures that call the signer, in program order:
\* the method called, its a and b (for sign_with_hardcoded_step, b is the step)
\* and the file the result is saved to
FixtureScript ==
    << [method |-> "get_key_info", a |-> 0, b |-> 0,
        file |-> "test_key_info.json"],
       [method |-> "sign_with_same_nonce", a |-> 1, b |-> 0,
        file |-> "test_signatures_same_nonce.json"],
       [method |-> "sign_with_counter_nonce", a |-> 1, b |-> 1,
        file |-> "test_signatures_counter.json"],
       [method |-> "sign_with_hardcoded_step", a |-> 1, b |-> 12345,
        file |-> "test_signatures_hardcoded_step.json"],
       [method |-> "sign_with_affine_nonces", a |-> 2, b |-> 1,
        file |-> "test_signatures_affine.json"],
       [method |-> "sign_with_affine_nonces", a |-> 3, b |-> 5,
        file |-> "test_signatures_affine_3x_plus_5.json"] >>

\* the five messages "Transaction i: Send i ETH"
FixtureMessages ==
    [i \in 1..5 |-> ToBytesLE(i, FieldLen) \o ToBytesLE(i, FieldLen)]

\* secrets.randbelow(CURVE_ORDER), drawn by a signing method called without a nonce
RandomNonces == 0..(SECP_ORDER - 1)

\* signer.<method>(messages, ...): looking up a name the class does not
\* define raises AttributeError
FlawedSignerCall(method, messages, nonce, a, b) ==
    IF method \notin FlawedSignerMethods
    THEN [kind |-> "AttributeError", signatures |-> <<>>]
    ELSE CASE method = "sign_with_same_nonce" ->
                ec_sign_with_same_nonce(messages, nonce)
           [] method = "sign_with_counter_nonce" ->
                ec_sign_with_counter_nonce(messages, nonce)
           [] method = "sign_with_affine_nonces" ->
                ec_sign_with_affine_nonces(messages, nonce, a, b)
           [] OTHER -> [kind |-> "TypeError", signatures |-> <<>>]

\* signer = FlawedSigner(): a generated key
FixturesInit ==
    /\ salt \in Salts
    /\ scheme = "fixtures"
    /\ private_key \in EcPrivateKeys
    /\ public_key = EcPublicKeyOf(private_key)
    /\ pc = "idle"
    /\ call = NoCall
    /\ outcome = NoOutcome
    /\ key_info = NoKeyInfo
    /\ attack_args = NoAttackArgs
    /\ result = NoResult
    /\ fixtures = [at |-> 1, saved |-> <<>>, called |-> <<>>, ended |-> "running"]

\* the next statement of generate_fixtures: a call on the signer followed by
\* the save of what it returned, or, after the last one, the closing message.
\* An exception ends the script where it is raised.
GenerateFixtures ==
    /\ scheme = "fixtures"
    /\ fixtures.ended = "running"
    /\ IF fixtures.at > Len(FixtureScript)
       THEN /\ fixtures' = [fixtures EXCEPT !.ended = "done"]
            /\ UNCHANGED <<pc, call, outcome, key_info>>
       ELSE
         LET stmt == FixtureScript[fixtures.at]
             saved == [fixtures EXCEPT !.at = @ + 1,
                                       !.saved = Append(@, stmt.file),
                                       !.called = Append(@, stmt.method)]
         IN IF stmt.method = "get_key_info"
            THEN /\ key_info' = ec_get_key_info
                 /\ fixtures' = saved
                 /\ pc' = "generating"
                 /\ UNCHANGED <<call, outcome>>
            ELSE \E nonce \in RandomNonces :
                   LET how == FlawedSignerCall(stmt.method, FixtureMessages, nonce,
                                               stmt.a, stmt.b)
                   IN /\ call' = [method |-> stmt.method, messages |-> FixtureMessages,
                                  nonce |-> nonce, a |-> stmt.a, b |-> stmt.b]
                      /\ outcome' = how
                      /\ fixtures' = IF how.kind = "return" THEN saved
                                     ELSE [fixtures EXCEPT
                                             !.ended = how.kind,
                                             !.called = Append(@, stmt.method)]
                      /\ pc' = "generating"
                      /\ UNCHANGED key_info
    /\ UNCHANGED <<salt, scheme, private_key, public_key, attack_args, result>>

Init == EdInit \/ EcInit \/ AttackInit \/ FixturesInit

Next ==
    \/ EdSignSameNonce
    \/ EdSignAffineNonces
    \/ EdSignCounterNonce
    \/ EdSignHardcodedStep
    \/ EdGetKeyInfo
    \/ AttackSigned
    \/ EdSignAffineChain
    \/ AttackComposed
    \/ EcSignSameNonce
    \/ EcSignAffineNonces
    \/ EcSignCounterNonce
    \/ AttackAny
    \/ GenerateFixtures

Spec == Init /\ [][Next]_vars

(* ======================= properties ======================= *)
\* the challenges attack recomputes from its two arguments, and its denominator
H1 == compute_h(attack_args.sig1[1], attack_args.sig1[3], attack_args.sig1[4])
H2 == compute_h(attack_args.sig2[1], attack_args.sig2[3], attack_args.sig2[4])
Degenerate == (H2 - attack_args.alpha * H1) % CURVE_ORDER = 0

\* attack got as far as recomputing both challenges
Recomputed ==
    /\ pc = "attacked"
    /\ attack_args.sig1[3] = attack_args.sig2[3]
    /\ FitsBytes(attack_args.sig1[1], FieldLen)
    /\ FitsBytes(attack_args.sig2[1], FieldLen)

Recovered == result.kind = "int" /\ result.value = SigningScalar

\* the i-th nonce (i = 0, 1, ...) of the schedule (a, b) from start, modulo n
RECURSIVE NthNonce(_, _, _, _, _)
NthNonce(start, a, b, i, n) ==
    IF i = 0 THEN start % n ELSE (a * NthNonce(start, a, b, i - 1, n) + b) % n

AttackedAfter(method) ==
    /\ scheme = "eddsa"
    /\ pc = "attacked"
    /\ call.method = method

\* C1: round trip: the first two signatures of sign_with_affine_nonces over two
\* distinct messages, with a private scalar in [1, n) and a start nonce in
\* [0, n), give attack(sigs[0], sigs[1], alpha, beta) = the scalar whenever
\* h2 # alpha * h1 (mod n)
RoundTrip ==
    ( /\ AttackedAfter("sign_with_affine_nonces")
      /\ attack_args.i = 1 /\ attack_args.j = 2
      /\ call.messages[1] # call.messages[2]
      /\ SigningScalar \in 1..(CURVE_ORDER - 1)
      /\ call.nonce \in 0..(CURVE_ORDER - 1)
      /\ ~Degenerate )
    => Recovered

RoundTripWitness ==
    /\ AttackedAfter("sign_with_affine_nonces")
    /\ attack_args.i = 1 /\ attack_args.j = 2
    /\ call.messages[1] # call.messages[2]
    /\ call.a = 2 /\ call.b = 3 /\ call.nonce = 4
    /\ SigningScalar = 3
    /\ ~Degenerate
    /\ Recovered

\* C2: degeneracy: two signatures with equal public keys whose recomputed
\* challenges satisfy h2 = alpha * h1 (mod n) make attack return None
Degeneracy ==
    (Recomputed /\ Degenerate) => result.kind = "None"

DegeneracyWitness ==
    /\ Recomputed /\ Degenerate
    /\ scheme = "attack"
    /\ attack_args.alpha = 3 /\ H1 # 0
    /\ AttackNumerator(attack_args.sig1[2], attack_args.sig2[2], attack_args.alpha,
                       attack_args.beta, CURVE_ORDER) # 0
    /\ result.kind = "None"

\* C3: key mismatch: signatures with different public keys make attack raise
\* ValueError before it computes a challenge, the numerator or the denominator
KeyMismatch ==
    (pc = "attacked" /\ attack_args.sig1[3] # attack_args.sig2[3])
    => (result.kind = "ValueError" /\ result.computed = {})

KeyMismatchWitness ==
    /\ pc = "attacked"
    /\ attack_args.sig1[3] # attack_args.sig2[3]
    /\ ~FitsBytes(attack_args.sig1[1], FieldLen)
    /\ result.kind = "ValueError"

\* C4: nonce reuse: any two signatures of sign_with_same_nonce at positions
\* i # j whose challenges differ give attack(sig_i, sig_j, 1, 0) = the scalar
NonceReuse ==
    ( /\ AttackedAfter("sign_with_same_nonce")
      /\ attack_args.alpha = 1 /\ attack_args.beta = 0
      /\ H1 # H2 )
    => Recovered

NonceReuseWitness ==
    /\ AttackedAfter("sign_with_same_nonce")
    /\ attack_args.i = 2 /\ attack_args.j = 1
    /\ H1 # H2
    /\ call.nonce = CURVE_ORDER
    /\ SigningScalar = 2
    /\ Recovered

\* C5: fixed step: sign_with_hardcoded_step(messages, step = k) uses the nonces
\* start, start + k, start + 2k, ... (mod n), and consecutive signatures with
\* different challenges give attack(sig_i, sig_i+1, 1, k) = the scalar
FixedStep ==
    (scheme = "eddsa" /\ pc \in {"signed", "attacked"}
       /\ call.method = "sign_with_hardcoded_step")
    => /\ \A k \in 1..Len(outcome.signatures) :
            IntOfHex(outcome.signatures[k].r)
              = (call.nonce + (k - 1) * call.b) % CURVE_ORDER
       /\ ( /\ pc = "attacked"
            /\ attack_args.j = attack_args.i + 1
            /\ attack_args.alpha = 1 /\ attack_args.beta = call.b
            /\ H1 # H2 )
          => Recovered

FixedStepWitness ==
    /\ AttackedAfter("sign_with_hardcoded_step")
    /\ attack_args.j = attack_args.i + 1
    /\ call.b = 3
    /\ IntOfHex(outcome.signatures[2].r) = (call.nonce + 3) % CURVE_ORDER
    /\ H1 # H2
    /\ SigningScalar = 4
    /\ Recovered

(* ---- what a signing call used for its k-th signature ---- *)
\* the k-th record of the EdDSA-style signer was made with this nonce
EdUsesNonce(k, nonce) ==
    LET sig == outcome.signatures[k]
        r_int == nonce % CURVE_ORDER
        h == signer_compute_h(ToBytesLE(r_int, FieldLen), public_key, call.messages[k])
    IN /\ IntOfHex(sig.r) = r_int
       /\ IntOfHex(sig.s) = (nonce + h * SigningScalar) % CURVE_ORDER

\* the k-th record of the ECDSA-style signer was made with this nonce
EcUsesNonce(k, nonce) ==
    LET sig == outcome.signatures[k]
        point == PointMul(nonce, GENERATOR)
    IN /\ point # INFINITY
       /\ sig.r = point[1] % SECP_ORDER
       /\ sig.z = hash_message(call.messages[k])
       /\ (sig.s * nonce) % SECP_ORDER = (sig.z + sig.r * private_key) % SECP_ORDER

UsesNonce(k, nonce) ==
    IF scheme = "eddsa" THEN EdUsesNonce(k, nonce) ELSE EcUsesNonce(k, nonce)

Order == IF scheme = "eddsa" THEN CURVE_ORDER ELSE SECP_ORDER

\* the relation a method's loop applies between two signatures
LoopBeta ==
    IF scheme = "ecdsa" /\ call.method = "sign_with_counter_nonce"
    THEN COUNTER_STEP ELSE call.b

ReturnedList == pc = "signed" /\ outcome.kind = "return"

\* C6: the ECDSA-style signer fails whenever the nonce it is about to use is
\* 0 (mod n) or the derived r is 0 (mod n): a call that returns used no such
\* nonce, and no record it returns has r = 0
DegenerateNonceFails ==
    (scheme = "ecdsa" /\ ReturnedList)
    => \A k \in 1..Len(call.messages) :
         LET nonce == NthNonce(call.nonce, call.a, LoopBeta, k - 1, SECP_ORDER)
         IN /\ nonce % SECP_ORDER # 0
            /\ PointMul(nonce, GENERATOR)[1] % SECP_ORDER # 0
            /\ outcome.signatures[k].r # 0

\* C7: sign_with_counter_nonce of either signer uses start_nonce + i (mod n)
\* for its i-th signature (i = 0, 1, ...)
CounterPolicy ==
    (ReturnedList /\ call.method = "sign_with_counter_nonce")
    => /\ Len(outcome.signatures) = Len(call.messages)
       /\ \A k \in 1..Len(outcome.signatures) :
            UsesNonce(k, (call.nonce + (k - 1)) % Order)

\* C8: the private_key get_key_info reports lies in [0, n) and is the scalar
\* the signing methods multiply with the challenge
KeyInfoIsScalar ==
    (scheme = "eddsa" /\ pc = "key_info")
    => /\ key_info.private_key \in 0..(CURVE_ORDER - 1)
       /\ key_info.private_key = SigningScalar

\* C9: a signing call that returns normally returns one record per message in
\* input order: as many records as messages, the k-th with the k-th message
\* and made with the k-th nonce of the method's schedule, the relation (a, b)
\* of the call applied k - 1 times to the start nonce: (1, 0) for
\* sign_with_same_nonce, (1, 1) for sign_with_counter_nonce, (1, step) for
\* sign_with_hardcoded_step; an empty list of messages gives an empty result
OnePerMessage ==
    ReturnedList
    => /\ Len(outcome.signatures) = Len(call.messages)
       /\ \A k \in 1..Len(call.messages) :
            /\ k <= Len(outcome.signatures)
            /\ IF scheme = "eddsa"
               THEN BytesOfHex(outcome.signatures[k].message) = call.messages[k]
               ELSE outcome.signatures[k].message = Utf8Decode(call.messages[k])
            /\ UsesNonce(k, NthNonce(call.nonce, call.a, call.b, k - 1, Order))

\* C10: once both challenges are recomputed, attack never takes the ValueError
\* fallback of the inverse: it returns None exactly when h2 - alpha * h1 is 0
\* (mod n), and otherwise a scalar in [0, n)
InverseOnlyOfNonzero ==
    Recomputed
    => /\ result.line # 109
       /\ (result.kind = "None") <=> Degenerate
       /\ ~Degenerate => (result.kind = "int" /\ result.value \in 0..(CURVE_ORDER - 1))

InverseOnlyOfNonzeroWitness ==
    /\ Recomputed
    /\ scheme = "attack"
    /\ AttackDenominator(H1, H2, attack_args.alpha, CURVE_ORDER) = CURVE_ORDER - 1
    /\ result.kind = "int"
    /\ result.line = 114

\* k_0 = start and k_i+1 = a * k_i + b (mod n)
RECURSIVE AffineNonce(_, _, _, _, _)
AffineNonce(start, a, b, i, n) ==
    IF i = 0 THEN start ELSE (a * AffineNonce(start, a, b, i - 1, n) + b) % n

\* C11: every record i returned by the ECDSA-style sign_with_affine_nonces
\* has r_i = x(k_i * G) mod n, z_i = hash_message(message_i) and
\* s_i * k_i = z_i + r_i * private_key (mod n), with k_0 = base_nonce and
\* k_i+1 = a * k_i + b (mod n)
EcdsaSigningEquation ==
    (scheme = "ecdsa" /\ ReturnedList /\ call.method = "sign_with_affine_nonces")
    => \A k \in 1..Len(outcome.signatures) :
         LET sig == outcome.signatures[k]
             nonce == AffineNonce(call.nonce, call.a, call.b, k - 1, SECP_ORDER)
             point == PointMul(nonce, GENERATOR)
         IN /\ point # INFINITY
            /\ sig.r = point[1] % SECP_ORDER
            /\ sig.z = hash_message(call.messages[k])
            /\ (sig.s * nonce) % SECP_ORDER
                 = (sig.z + sig.r * private_key) % SECP_ORDER

EcdsaSigningEquationWitness ==
    /\ scheme = "ecdsa" /\ ReturnedList
    /\ call.method = "sign_with_affine_nonces"
    /\ call.a = 2 /\ call.b = 1 /\ call.nonce = 2
    /\ private_key = 3
    /\ Len(outcome.signatures) = 2
    /\ outcome.signatures[2].r = 4
    /\ outcome.signatures[2].s # 0
    /\ (outcome.signatures[2].s * 5) % SECP_ORDER
         = (outcome.signatures[2].z + 4 * 3) % SECP_ORDER

\* the offset of the affine recurrence a nonce policy of the EdDSA-style
\* signer is an instance of: constant (1, 0), counter (1, 1), fixed step (1, step)
PolicyOffset ==
    CASE call.method = "sign_with_same_nonce" -> 0
      [] call.method = "sign_with_counter_nonce" -> 1
      [] call.method = "sign_with_hardcoded_step" -> call.b
      [] OTHER -> call.b

\* C12: for the same signer, messages and start nonce, reduced or not,
\* sign_with_same_nonce returns the list sign_with_affine_nonces(a=1, b=0)
\* returns, sign_with_counter_nonce that of (a=1, b=1) and
\* sign_with_hardcoded_step(step) that of (a=1, b=step)
PoliciesAreAffine ==
    ( /\ scheme = "eddsa"
      /\ pc = "signed"
      /\ call.method \in {"sign_with_same_nonce", "sign_with_counter_nonce",
                          "sign_with_hardcoded_step"} )
    => outcome.signatures
         = ed_sign_with_affine_nonces(call.messages, 1, PolicyOffset, call.nonce)

PoliciesAreAffineWitness ==
    /\ scheme = "eddsa"
    /\ pc = "signed"
    /\ call.method = "sign_with_hardcoded_step"
    /\ call.b = 3
    /\ call.nonce = CURVE_ORDER
    /\ Len(outcome.signatures) = 2
    /\ IntOfHex(outcome.signatures[1].r) = 0
    /\ IntOfHex(outcome.signatures[2].r) = 3
    /\ outcome.signatures = ed_sign_with_affine_nonces(call.messages, 1, 3, CURVE_ORDER)

\* C13: a run of generate_fixtures that ended for another reason than a
\* degenerate random nonce ended at its closing message, with its six files
\* saved in program order and having called only methods FlawedSigner defines
FixturesGenerated ==
    ( /\ scheme = "fixtures"
      /\ fixtures.ended \notin {"running", "TypeError", "ValueError"} )
    => /\ fixtures.ended = "done"
       /\ fixtures.saved = [k \in 1..Len(FixtureScript) |-> FixtureScript[k].file]
       /\ \A k \in 1..Len(fixtures.called) : fixtures.called[k] \in FlawedSignerMethods

\* attack called with the same signatures and the residues of alpha and beta
AttackReduced ==
    attack(attack_args.sig1, attack_args.sig2,
           attack_args.alpha % CURVE_ORDER, attack_args.beta % CURVE_ORDER)

\* C14: on signatures with equal public keys, attack(sig1, sig2, alpha, beta)
\* ends as attack(sig1, sig2, alpha mod n, beta mod n) does, for negative
\* alpha and beta and for alpha and beta of n or more: the same scalar, or
\* None in both
ResidueOnly ==
    (pc = "attacked" /\ attack_args.sig1[3] = attack_args.sig2[3])
    => /\ result.kind = AttackReduced.kind
       /\ result.value = AttackReduced.value

ResidueOnlyWitness ==
    /\ scheme = "attack"
    /\ pc = "attacked"
    /\ attack_args.sig1[3] = attack_args.sig2[3]
    /\ attack_args.alpha = 0 - 1
    /\ attack_args.beta = CURVE_ORDER
    /\ result.kind = "int"
    /\ result.value # 0
    /\ result.value = AttackReduced.value

\* a^(d-1) + ... + a + 1
RECURSIVE GeometricSum(_, _)
GeometricSum(a, d) == IF d = 0 THEN 0 ELSE Pow(a, d - 1) + GeometricSum(a, d - 1)

\* C15: for the records at positions i < j of a list returned by
\* sign_with_affine_nonces(messages, a, b), with d = j - i, the relation of the
\* d loop passes between them is (a^d, b * (a^(d-1) + ... + a + 1)), which is
\* (1, d * b) for a = 1, and attack called with it returns the signing scalar
\* whenever h_j # a^d * h_i (mod n)
RelationsCompose ==
    (scheme = "eddsa" /\ pc = "composed")
    => LET d == attack_args.j - attack_args.i
       IN /\ d >= 1
          /\ attack_args.alpha = Pow(call.a, d)
          /\ attack_args.beta = call.b * GeometricSum(call.a, d)
          /\ (call.a = 1 => attack_args.alpha = 1 /\ attack_args.beta = d * call.b)
          /\ ((H2 - Pow(call.a, d) * H1) % CURVE_ORDER # 0 => Recovered)

RelationsComposeWitness ==
    /\ scheme = "eddsa"
    /\ pc = "composed"
    /\ attack_args.i = 1 /\ attack_args.j = 3
    /\ call.a = 2 /\ call.b = 3 /\ call.nonce = 4
    /\ attack_args.alpha = 4 /\ attack_args.beta = 9
    /\ SigningScalar = 3
    /\ (H2 - 4 * H1) % CURVE_ORDER # 0
    /\ Recovered

====
